---- MODULE Spec2Model ----
(***************************************************************************)
(* Master / picklist reconciliation, seniority parsing and company-domain  *)
(* scoring of app.py, as a state machine over one run of run_matching.     *)
(*                                                                         *)
(* Text is a TLA+ string; a character is a string of length one.  A cell   *)
(* of a dataset is a record [kind, s]: kind "str" with its text s, kind    *)
(* "num" with s the text str() gives for the number, kind "nan" for an     *)
(* empty spreadsheet cell (pandas reads it as the float NaN, str() "nan"). *)
(* A similarity score is a fraction [n, d] standing for n / d, so that the *)
(* comparisons with the thresholds are exact.                              *)
(***************************************************************************)
EXTENDS Integers, Sequences, FiniteSets, TLC

\* ------------------------------------------------------------ characters

Ch(s, i) == SubSeq(s, i, i)

UpperChars == "ABCDEFGHIJKLMNOPQRSTUVWXYZ"
LowerChars == "abcdefghijklmnopqrstuvwxyz"
DigitChars == "0123456789"
\* Word characters in ascending code-point order (digits, upper, "_", lower).
WordChars == DigitChars \o UpperChars \o "_" \o LowerChars

\* the characters of a text
CharSet(alphabet) == {Ch(alphabet, i) : i \in 1..Len(alphabet)}

WordCharSet == CharSet(WordChars)

\* re: \w
IsWord(c) == c \in WordCharSet

\* re: \s, and the whitespace of str.strip() and str.split()
IsSpace(c) == c = " "

\* the lower-case letter of every upper-case letter
LowerTable ==
    [c \in CharSet(UpperChars) |->
        Ch(LowerChars, CHOOSE i \in 1..Len(UpperChars) : Ch(UpperChars, i) = c)]

\* str.lower() on one character
LowerChar(c) == IF c \in DOMAIN LowerTable THEN LowerTable[c] ELSE c

RECURSIVE LowerFrom(_, _)
LowerFrom(s, i) ==
    IF i > Len(s) THEN "" ELSE LowerChar(Ch(s, i)) \o LowerFrom(s, i + 1)

\* str.lower()
Lower(s) == LowerFrom(s, 1)

RECURSIVE LStrip(_)
LStrip(s) == IF Len(s) > 0 /\ IsSpace(Ch(s, 1)) THEN LStrip(Tail(s)) ELSE s

RECURSIVE RStrip(_)
RStrip(s) ==
    IF Len(s) > 0 /\ IsSpace(Ch(s, Len(s)))
    THEN RStrip(SubSeq(s, 1, Len(s) - 1))
    ELSE s

\* str.strip()
Strip(s) == RStrip(LStrip(s))

RECURSIVE KeepFrom(_, _, _)
KeepFrom(s, i, keepSpace) ==
    IF i > Len(s) THEN ""
    ELSE (IF IsWord(Ch(s, i)) \/ (keepSpace /\ IsSpace(Ch(s, i)))
          THEN Ch(s, i) ELSE "")
         \o KeepFrom(s, i + 1, keepSpace)

\* re.sub(r"[^\w\s]", "", s): the characters that are neither word nor space go
StripPunct(s) == KeepFrom(s, 1, TRUE)

\* re.sub(r"[^\w]", "", s): only the word characters stay
OnlyWord(s) == KeepFrom(s, 1, FALSE)

RECURSIVE SplitFrom(_, _, _)
SplitFrom(s, i, cur) ==
    IF i > Len(s)
    THEN (IF cur = "" THEN <<>> ELSE <<cur>>)
    ELSE IF IsSpace(Ch(s, i))
         THEN (IF cur = "" THEN <<>> ELSE <<cur>>) \o SplitFrom(s, i + 1, "")
         ELSE SplitFrom(s, i + 1, cur \o Ch(s, i))

\* str.split(): the maximal runs of non-space characters, in order
Split(s) == SplitFrom(s, 1, "")

RECURSIVE Join(_)
\* " ".join(toks)
Join(toks) ==
    IF Len(toks) = 0 THEN ""
    ELSE IF Len(toks) = 1 THEN toks[1]
    ELSE toks[1] \o " " \o Join(Tail(toks))

RECURSIVE DropSpaces(_, _)
DropSpaces(s, i) ==
    IF i > Len(s) THEN ""
    ELSE (IF Ch(s, i) = " " THEN "" ELSE Ch(s, i)) \o DropSpaces(s, i + 1)

\* s.replace(" ", "")
Despace(s) == DropSpaces(s, 1)

\* Python's "needle in hay" on strings
Contains(hay, needle) ==
    \E i \in 1..(Len(hay) - Len(needle) + 1) :
        SubSeq(hay, i, i + Len(needle) - 1) = needle

\* str.startswith
StartsWith(s, p) == Len(p) <= Len(s) /\ SubSeq(s, 1, Len(p)) = p

\* re.search(r"\bkw\b", t) for a keyword that begins and ends with a word
\* character: kw occurs in t with no word character right before or after it
WordSearch(t, kw) ==
    \E i \in 1..(Len(t) - Len(kw) + 1) :
        /\ SubSeq(t, i, i + Len(kw) - 1) = kw
        /\ (i = 1 \/ ~IsWord(Ch(t, i - 1)))
        /\ (i + Len(kw) - 1 = Len(t) \/ ~IsWord(Ch(t, i + Len(kw))))

\* ------------------------------------------------------------ cells

StrCell(s) == [kind |-> "str", s |-> s]
NumCell(s) == [kind |-> "num", s |-> s]
NaN == [kind |-> "nan", s |-> "nan"]

\* str(value)
PyStr(cell) == cell.s

\* isinstance(value, str)
IsStr(cell) == cell.kind = "str"

\* bool(value): the empty string and the number 0 are false, NaN is true
Truthy(cell) ==
    CASE cell.kind = "str" -> cell.s # ""
      [] cell.kind = "num" -> cell.s # "0"
      [] OTHER -> TRUE

\* series.fillna("").astype(str) on one cell
FillStr(cell) == IF cell.kind = "nan" THEN "" ELSE PyStr(cell)

\* ------------------------------------------------------------ domain / company helpers

SUFFIXES ==
    { "ltd", "limited", "co", "company", "corp", "corporation", "inc",
      "incorporated", "plc", "public",
      "llc", "lp", "llp", "ulc", "pc", "pllc", "sa", "ag", "nv", "se", "bv",
      "oy", "ab", "aps", "as", "kft",
      "zrt", "rt", "sarl", "sas", "spa", "gmbh", "ug", "kg", "bvba", "cvba",
      "pte", "pty", "bhd", "sdn",
      "kabushiki", "kaisha", "kk", "godo", "gk", "dmcc", "pjsc", "psc", "jsc",
      "ltda", "srl", "s.r.l.",
      "group", "holdings", "holding", "intl", "international", "global",
      "ventures", "solutions", "systems",
      "technology", "technologies", "services", "enterprise", "enterprises",
      "industries", "industry",
      "consulting", "partners", "management", "capital", "investments",
      "investment", "resources", "media",
      "marketing", "communications", "digital", "creative", "agency",
      "engineering", "finance", "financial",
      "energy", "power", "renewables", "medical", "healthcare", "hospital",
      "labs", "pharma", "realestate",
      "developers", "construction", "travel", "tourism", "transport",
      "shipping", "mining", "metals",
      "automotive", "education", "training", "academy", "university",
      "institute" }

STOPWORDS == { "net", "pro", "it", "web", "data", "info", "biz" }

\* lower bound for "Unsure - Please Check"
THRESHOLD == 70

\* the fused score from which the fuzzy stage says "Likely Match"
STRONG == 90

\* the shortest domain text that is not "generic"
MIN_DOM_LEN == 4

\* the shortest acronym that counts
MIN_ACRONYM_LEN == 3

\* the score of an acronym match
ACRONYM_SCORE == 95

\* [t for t in toks if t not in SUFFIXES]
NotSuffix(toks) == SelectSeq(toks, LAMBDA t : t \notin SUFFIXES)

\* _normalize_tokens with the suffix tokens dropped before the punctuation
_normalize_tokens_suffix_first(text) ==
    Join(Split(StripPunct(Join(NotSuffix(Split(Lower(text)))))))

\* lower-case, drop punctuation, split on whitespace, drop the suffix tokens,
\* join with single spaces
_normalize_tokens(text) == Join(NotSuffix(Split(StripPunct(Lower(text)))))

RECURSIVE AcronymFrom(_, _)
AcronymFrom(s, i) ==
    IF i > Len(s) THEN ""
    ELSE (IF IsWord(Ch(s, i)) /\ (i = 1 \/ ~IsWord(Ch(s, i - 1)))
          THEN Ch(s, i) ELSE "")
         \o AcronymFrom(s, i + 1)

\* "".join(re.findall(r"\b\w", name)).lower(): the first character of every
\* run of word characters
_make_acronym(name) == Lower(AcronymFrom(name, 1))

RECURSIVE SplitOnFrom(_, _, _, _)
SplitOnFrom(s, sep, i, cur) ==
    IF i > Len(s) THEN <<cur>>
    ELSE IF Ch(s, i) = sep THEN <<cur>> \o SplitOnFrom(s, sep, i + 1, "")
    ELSE SplitOnFrom(s, sep, i + 1, cur \o Ch(s, i))

\* s.split(sep) for a separator of one character
SplitOn(s, sep) == SplitOnFrom(s, sep, 1, "")

\* re.sub("^prefix", "", s)
DropPrefix(s, p) == IF StartsWith(s, p) THEN SubSeq(s, Len(p) + 1, Len(s)) ELSE s

\* re.sub(r"^https?://", "", s)
DropScheme(s) ==
    IF StartsWith(s, "https://") THEN DropPrefix(s, "https://")
    ELSE DropPrefix(s, "http://")

\* re.sub(r"/.*$", "", s): everything from the first "/" goes
DropPath(s) == SplitOn(s, "/")[1]

EndsWith(s, p) == Len(p) <= Len(s) /\ SubSeq(s, Len(s) - Len(p) + 1, Len(s)) = p

DOMAIN_SUFFIXES ==
    {"andco", "group", "intl", "international", "global", "solutions", "systems",
     "holdings", "ltd", "inc"}

\* re.sub(r"(andco|group|...|inc)$", "", core): the match that starts first,
\* which is the longest of the suffixes core ends with, goes
DropBrandSuffix(core) ==
    LET ends == {x \in DOMAIN_SUFFIXES : EndsWith(core, x)}
    IN IF ends = {} THEN core
       ELSE LET x == CHOOSE e \in ends : \A o \in ends : Len(o) <= Len(e)
            IN SubSeq(core, 1, Len(core) - Len(x))

\* the missing value of a series of texts
NA == "<NaN>"

\* tmp.str.split(".").str[-2] on one cell: the second-level label of a URL or
\* domain (the segment before the last "."); NA when the text has no "."
SecondLevelLabel(cell) ==
    LET tmp == DropPrefix(DropPath(DropScheme(Lower(PyStr(cell)))), "www.")
        parts == SplitOn(tmp, ".")
    IN IF Len(parts) < 2 THEN NA ELSE parts[Len(parts) - 1]

\* _clean_domain_series on one cell: the label without a brand suffix
_clean_domain_series(cell) ==
    IF SecondLevelLabel(cell) = NA THEN NA
    ELSE DropBrandSuffix(SecondLevelLabel(cell))

\* ------------------------------------------------------------ rapidfuzz.fuzz

Max(a, b) == IF a >= b THEN a ELSE b

\* a score n / d
Frac(n, d) == [n |-> n, d |-> d]
FracLE(f, g) == f.n * g.d <= g.n * f.d
FracEq(f, g) == f.n * g.d = g.n * f.d
FracMax(f, g) == IF FracLE(f, g) THEN g ELSE f
\* score >= k, score < k for a whole number k
AtLeast(f, k) == f.n >= k * f.d
Below(f, k) == f.n < k * f.d

RECURSIVE LcsRow(_, _, _, _)
\* One row of the longest-common-subsequence table, for character c of a:
\* acc holds the leading 0 and the row's entries for the first Len(acc) - 1
\* characters of b; prev is the row before.
LcsRow(prev, c, b, acc) ==
    LET j == Len(acc)
    IN IF j > Len(b) THEN acc
       ELSE LcsRow(prev, c, b,
                   Append(acc, IF c = Ch(b, j) THEN prev[j] + 1
                               ELSE Max(prev[j + 1], acc[j])))

RECURSIVE LcsTable(_, _, _)
\* The table's rows for the prefixes of a: rows holds the rows of the first
\* Len(rows) - 1 characters of a (and the row of zeros).
LcsTable(a, b, rows) ==
    LET i == Len(rows)
    IN IF i > Len(a) THEN rows
       ELSE LcsTable(a, b, Append(rows, LcsRow(rows[i], Ch(a, i), b, <<0>>)))

\* the length of a longest common subsequence
Lcs(a, b) ==
    LcsTable(a, b, <<[j \in 1..(Len(b) + 1) |-> 0]>>)[Len(a) + 1][Len(b) + 1]

\* the Indel distance: insertions and deletions that turn a into b
Indel(a, b) == Len(a) + Len(b) - 2 * Lcs(a, b)

\* 100 - 100 * dist / lensum
NormDist(dist, lensum) ==
    IF lensum = 0 THEN Frac(100, 1) ELSE Frac(100 * (lensum - dist), lensum)

\* fuzz.ratio: the normalized Indel similarity, 0..100
ratio(a, b) == NormDist(Indel(a, b), Len(a) + Len(b))

\* The alignments of a needle of length n in hay: hay's prefixes and suffixes
\* shorter than n, and its substrings of length n.
Windows(n, hay) ==
    {SubSeq(hay, 1, i) : i \in 1..(n - 1)}
    \cup {SubSeq(hay, i, i + n - 1) : i \in 1..(Len(hay) - n + 1)}
    \cup {SubSeq(hay, i, Len(hay)) : i \in (Len(hay) - n + 2)..Len(hay)}

RECURSIVE FracMaxOver(_, _)
FracMaxOver(fs, best) ==
    IF fs = {} THEN best
    ELSE LET f == CHOOSE x \in fs : TRUE
         IN FracMaxOver(fs \ {f}, FracMax(best, f))

\* the best fuzz.ratio of needle against an alignment in hay
BestAlignment(needle, hay) ==
    FracMaxOver({ratio(needle, w) : w \in Windows(Len(needle), hay)}, Frac(0, 1))

\* fuzz.partial_ratio: the shorter string is aligned in the longer one; two
\* strings of one length are tried both ways
partial_ratio(s1, s2) ==
    IF Len(s1) = 0 \/ Len(s2) = 0
    THEN (IF Len(s1) = Len(s2) THEN Frac(100, 1) ELSE Frac(0, 1))
    ELSE IF Len(s1) < Len(s2) THEN BestAlignment(s1, s2)
    ELSE IF Len(s2) < Len(s1) THEN BestAlignment(s2, s1)
    ELSE FracMax(BestAlignment(s1, s2), BestAlignment(s2, s1))

RankTable ==
    [c \in WordCharSet |-> CHOOSE i \in 1..Len(WordChars) : Ch(WordChars, i) = c]

\* the place of a word character in code-point order
Rank(c) == RankTable[c]

RECURSIVE LexLess(_, _)
\* a < b on strings
LexLess(a, b) ==
    IF Len(b) = 0 THEN FALSE
    ELSE IF Len(a) = 0 THEN TRUE
    ELSE IF Ch(a, 1) = Ch(b, 1) THEN LexLess(Tail(a), Tail(b))
    ELSE Rank(Ch(a, 1)) < Rank(Ch(b, 1))

RECURSIVE Sorted(_)
\* sorted(tokens)
Sorted(S) ==
    IF S = {} THEN <<>>
    ELSE LET m == CHOOSE t \in S : \A u \in S : u = t \/ LexLess(t, u)
         IN <<m>> \o Sorted(S \ {m})

TokenSet(s) == {Split(s)[i] : i \in 1..Len(Split(s))}

\* fuzz.token_set_ratio: the sets of tokens are compared as the sorted common
\* part plus each side's sorted rest
token_set_ratio(s1, s2) ==
    LET A == TokenSet(s1)
        B == TokenSet(s2)
        ab == Join(Sorted(A \ B))
        ba == Join(Sorted(B \ A))
        sect == Len(Join(Sorted(A \cap B)))
        sep == IF sect # 0 THEN 1 ELSE 0
        sect_ab == sect + sep + Len(ab)
        sect_ba == sect + sep + Len(ba)
        result == NormDist(Indel(ab, ba), sect_ab + sect_ba)
    IN IF A = {} \/ B = {} THEN Frac(0, 1)
       ELSE IF A \cap B # {} /\ (A \ B = {} \/ B \ A = {}) THEN Frac(100, 1)
       ELSE IF sect = 0 THEN result
       ELSE FracMax(result,
                    FracMax(NormDist(sep + Len(ab), sect + sect_ab),
                            NormDist(sep + Len(ba), sect + sect_ba)))

\* ------------------------------------------------------------ score_domain_company

Verdict(ok, sc, mth, stat) == [ok |-> ok, score |-> sc, method |-> mth, status |-> stat]

LIKELY == "Likely Match"
UNSURE == "Unsure - Please Check"
NOT_MATCH == "Likely Not Match"

\* FuzzyVerdict with is_match set whatever the band
FuzzyVerdict_always_ok(dom, comp) ==
    LET m1 == partial_ratio(dom, comp)
        m2 == token_set_ratio(dom, comp)
        fused == FracMax(m1, m2)
    IN IF AtLeast(fused, STRONG) THEN Verdict(TRUE, fused, "fuzzy", LIKELY)
       ELSE IF AtLeast(fused, THRESHOLD) THEN Verdict(TRUE, fused, "fuzzy", UNSURE)
       ELSE Verdict(TRUE, fused, "fuzzy", NOT_MATCH)

\* FuzzyVerdict with the lower band entered only above THRESHOLD
FuzzyVerdict_above(dom, comp) ==
    LET m1 == partial_ratio(dom, comp)
        m2 == token_set_ratio(dom, comp)
        fused == FracMax(m1, m2)
    IN IF AtLeast(fused, STRONG) THEN Verdict(TRUE, fused, "fuzzy", LIKELY)
       ELSE IF ~FracLE(fused, Frac(THRESHOLD, 1))
       THEN Verdict(TRUE, fused, "fuzzy", UNSURE)
       ELSE Verdict(FALSE, fused, "fuzzy", NOT_MATCH)

\* the fuzzy stage, on the cleaned texts
FuzzyVerdict(dom, comp) ==
    LET m1 == partial_ratio(dom, comp)
        m2 == token_set_ratio(dom, comp)
        fused == FracMax(m1, m2)
    IN IF AtLeast(fused, STRONG) THEN Verdict(TRUE, fused, "fuzzy", LIKELY)
       ELSE IF AtLeast(fused, THRESHOLD) THEN Verdict(TRUE, fused, "fuzzy", UNSURE)
       ELSE Verdict(FALSE, fused, "fuzzy", NOT_MATCH)

\* StagedVerdict with the acronym test made before the containment test
StagedVerdict_acronym_first(company_raw, dom, comp) ==
    LET ac == _make_acronym(PyStr(company_raw))
    IN IF Len(dom) < MIN_DOM_LEN \/ dom \in STOPWORDS
       THEN Verdict(FALSE, Frac(0, 1), "generic", UNSURE)
       ELSE IF Len(ac) >= MIN_ACRONYM_LEN /\ (dom = ac \/ StartsWith(dom, ac))
       THEN Verdict(TRUE, Frac(ACRONYM_SCORE, 1), "acronym", LIKELY)
       ELSE IF Contains(Despace(comp), dom)
       THEN Verdict(TRUE, Frac(100, 1), "contains", LIKELY)
       ELSE FuzzyVerdict(dom, comp)

\* the stages after the cleaned texts are known to be non-empty
StagedVerdict(company_raw, dom, comp) ==
    LET ac == _make_acronym(PyStr(company_raw))
    IN IF Len(dom) < MIN_DOM_LEN \/ dom \in STOPWORDS
       THEN Verdict(FALSE, Frac(0, 1), "generic", UNSURE)
       ELSE IF Contains(Despace(comp), dom)
       THEN Verdict(TRUE, Frac(100, 1), "contains", LIKELY)
       ELSE IF Len(ac) >= MIN_ACRONYM_LEN /\ (dom = ac \/ StartsWith(dom, ac))
       THEN Verdict(TRUE, Frac(ACRONYM_SCORE, 1), "acronym", LIKELY)
       ELSE FuzzyVerdict(dom, comp)

\* score_domain_company(company_raw, domain_raw) on two cells
score_domain_company(company_raw, domain_raw) ==
    LET comp == _normalize_tokens(PyStr(company_raw))
        dom == OnlyWord(Lower(PyStr(domain_raw)))
    IN IF ~Truthy(company_raw) \/ ~Truthy(domain_raw)
       THEN Verdict(FALSE, Frac(0, 1), "none", NOT_MATCH)
       ELSE IF comp = "" \/ dom = ""
       THEN Verdict(FALSE, Frac(0, 1), "none", NOT_MATCH)
       ELSE StagedVerdict(company_raw, dom, comp)

\* ------------------------------------------------------------ parse_seniority

\* The keyword tests of parse_seniority in the order the code makes them: the
\* tier and the rationale returned, and the words searched with \b...\b.
SENIORITY_RULES ==
    << [tier |-> "C Suite", logic |-> "keyword: c-level",
        kws |-> {"chief", "cio", "cto", "ceo", "cfo", "ciso", "cpo", "cso",
                 "coo", "chro", "president"}],
       [tier |-> "VP", logic |-> "keyword: vp",
        kws |-> {"vice president", "vp"}],
       [tier |-> "Head", logic |-> "keyword: head", kws |-> {"head"}],
       [tier |-> "Director", logic |-> "keyword: director", kws |-> {"director"}],
       [tier |-> "Manager", logic |-> "keyword: manager/mgr",
        kws |-> {"manager", "mgr"}],
       [tier |-> "Senior", logic |-> "keyword: senior/lead",
        kws |-> {"senior", "sr", "lead", "principal"}],
       [tier |-> "Entry", logic |-> "keyword: entry-level term",
        kws |-> {"intern", "trainee", "assistant", "graduate"}],
       [tier |-> "Entry", logic |-> "default: technical role",
        kws |-> {"engineer", "architect", "analyst", "developer", "consultant",
                 "scientist", "technician", "designer", "associate",
                 "coordinator"}] >>

\* re.search of rule i's pattern in t
RuleHits(i, t) == \E kw \in SENIORITY_RULES[i].kws : WordSearch(t, kw)

\* FirstRule taking the last rule whose pattern is found
FirstRule_last(t) ==
    LET hits == {i \in 1..Len(SENIORITY_RULES) : RuleHits(i, t)}
    IN IF hits = {} THEN 0
       ELSE CHOOSE i \in hits : \A k \in hits : i >= k

\* the first rule, in the code's order, whose pattern is found in t; 0 if none
FirstRule(t) ==
    LET hits == {i \in 1..Len(SENIORITY_RULES) : RuleHits(i, t)}
    IN IF hits = {} THEN 0
       ELSE CHOOSE i \in hits : \A k \in hits : i <= k

\* parse_seniority(title) on a cell: <<tier, rationale>>
parse_seniority(title) ==
    IF ~IsStr(title) THEN <<"Entry", "default: no seniority term found">>
    ELSE LET t == Strip(Lower(title.s))
             i == FirstRule(t)
         IN IF i = 0 THEN <<"Entry", "default: none found">>
            ELSE <<SENIORITY_RULES[i].tier, SENIORITY_RULES[i].logic>>

\* ------------------------------------------------------------ run_matching: state

VARIABLES
    pc,            \* the step run_matching is at
    pair,          \* the index in EXACT_PAIRS of the pair to reconcile next
    mcols, mrows,  \* df_master: its columns, its rows (column -> cell)
    pcols, prows,  \* df_picklist_raw: its columns, its rows
    out,           \* df_out: the master's columns, as rows (column -> cell)
    Match,         \* df_out["Match_<field>"], per master field; <<>> while unset
    corrected_cells,
    Parsed_Seniority, Seniority_Logic, Seniority_Match,
    Domain_Match, Domain_Score, Domain_Method, Domain_Connection_Status,
    program,       \* which of the two programs runs
    out_file,      \* the output workbook on disk
    returned       \* what run_matching has returned; NONE while it runs

\* the file system and the caller's side of a run
io == << program, out_file, returned >>

vars ==
    << pc, pair, mcols, mrows, pcols, prows, out, Match, corrected_cells,
       Parsed_Seniority, Seniority_Logic, Seniority_Match,
       Domain_Match, Domain_Score, Domain_Method, Domain_Connection_Status,
       program, out_file, returned >>

\* src/app.py, and src/master-picklist-matching-main/app.py, which has no
\* domain step and writes its output before it formats it
Programs == {"app", "main"}

EXACT_PAIRS ==
    << <<"c_industry", "c_industry">>,
       <<"asset_title", "asset_title">>,
       <<"lead_country", "lead_country">>,
       <<"departments", "departments">>,
       <<"c_state", "c_state">> >>

MasterFields == {EXACT_PAIRS[k][1] : k \in 1..Len(EXACT_PAIRS)}

keep_cols ==
    {"c_industry", "asset_title", "lead_country", "departments", "c_state",
     "seniority"}

company_candidates == <<"companyname", "company", "company name", "company_name">>
domain_candidates == <<"website", "domain", "email domain", "email_domain">>

\* Python's None in a column of texts, and in the column of scores
NONE == "<None>"
NoScore == Frac(0, 0)

\* a column holding one value in each of n rows
Broadcast(n, v) == [i \in 1..n |-> v]

\* df_picklist: the kept columns of the raw picklist, without the rows that are
\* empty in all of them
df_picklist_cols == pcols \cap keep_cols

df_picklist_rows ==
    SelectSeq(prows, LAMBDA r : \E c \in df_picklist_cols : r[c].kind # "nan")

\* df_picklist[col].dropna().astype(str)
PickValues(col) ==
    LET present == SelectSeq(df_picklist_rows, LAMBDA r : r[col].kind # "nan")
    IN [i \in 1..Len(present) |-> PyStr(present[i][col])]

\* v.strip().lower()
NormKey(v) == Lower(Strip(v))

\* {v.strip().lower(): v.strip() for v in vals}: a later value replaces an
\* earlier one with the same key
PickMap(vals) ==
    [k \in {NormKey(vals[i]) : i \in 1..Len(vals)} |->
        LET last == CHOOSE i \in 1..Len(vals) :
                        /\ NormKey(vals[i]) = k
                        /\ \A j \in 1..Len(vals) : NormKey(vals[j]) = k => j <= i
        IN Strip(vals[last])]

\* the spreadsheet row of the i-th record (row 1 is the header)
ExcelRow(i) == i + 1

\* ------------------------------------------------------------ run_matching: steps

\* Reconciled with the correction test made against the normalized value
\* instead of the raw one
Reconciled_vs_norm(pick_map, val) ==
    LET val_norm == NormKey(val)
    IN IF val_norm \in DOMAIN pick_map
       THEN [match |-> "Yes", new_val |-> pick_map[val_norm],
             corrected |-> pick_map[val_norm] # val_norm]
       ELSE [match |-> "No", new_val |-> val, corrected |-> FALSE]

\* what the loop body does to row i of master_col, given pick_map
Reconciled(pick_map, val) ==
    LET val_norm == NormKey(val)
    IN IF val_norm \in DOMAIN pick_map
       THEN [match |-> "Yes", new_val |-> pick_map[val_norm],
             corrected |-> pick_map[val_norm] # val]
       ELSE [match |-> "No", new_val |-> val, corrected |-> FALSE]

\* the branch for a pair whose two columns exist: the annotation, the new
\* values of master_col and the corrected cells
ReconcileColumn(master_col, picklist_col) ==
    LET n == Len(mrows)
        pick_map == PickMap(PickValues(picklist_col))
        res == [i \in 1..n |-> Reconciled(pick_map, FillStr(mrows[i][master_col]))]
    IN /\ Match' = [Match EXCEPT ![master_col] = [i \in 1..n |-> res[i].match]]
       /\ out' = [i \in 1..n |->
                     [out[i] EXCEPT ![master_col] = StrCell(res[i].new_val)]]
       /\ corrected_cells' = corrected_cells \cup
             {<<master_col, ExcelRow(i)>> : i \in {j \in 1..n : res[j].corrected}}

\* ColumnMissing with the sentinel written into the master's own column
ColumnMissing_into_master(master_col) ==
    /\ Match' = [Match EXCEPT ![master_col] = Broadcast(Len(mrows), "Column Missing")]
    /\ out' = [i \in 1..Len(mrows) |->
                  [c \in mcols |-> IF c = master_col THEN StrCell("Column Missing")
                                   ELSE out[i][c]]]
    /\ UNCHANGED corrected_cells

\* the branch for a pair with a column absent: only the annotation is written
ColumnMissing(master_col) ==
    /\ Match' = [Match EXCEPT ![master_col] = Broadcast(Len(mrows), "Column Missing")]
    /\ UNCHANGED <<out, corrected_cells>>

\* one iteration of "for master_col, picklist_col in EXACT_PAIRS"
ReconcilePair ==
    /\ pc = "reconcile"
    /\ LET master_col == EXACT_PAIRS[pair][1]
           picklist_col == EXACT_PAIRS[pair][2]
       IN IF master_col \in mcols /\ picklist_col \in df_picklist_cols
          THEN ReconcileColumn(master_col, picklist_col)
          ELSE ColumnMissing(master_col)
    /\ IF pair < Len(EXACT_PAIRS)
       THEN pair' = pair + 1 /\ pc' = pc
       ELSE pair' = pair /\ pc' = "seniority"
    /\ UNCHANGED io
    /\ UNCHANGED << mcols, mrows, pcols, prows,
                    Parsed_Seniority, Seniority_Logic, Seniority_Match,
                    Domain_Match, Domain_Score, Domain_Method,
                    Domain_Connection_Status >>

\* the "jobtitle" block: parse every title, or the sentinel columns
ParseSeniority ==
    /\ pc = "seniority"
    /\ LET n == Len(mrows)
       IN IF "jobtitle" \in mcols
          THEN /\ Parsed_Seniority' =
                     [i \in 1..n |-> parse_seniority(mrows[i]["jobtitle"])[1]]
               /\ Seniority_Logic' =
                     [i \in 1..n |-> parse_seniority(mrows[i]["jobtitle"])[2]]
          ELSE /\ Parsed_Seniority' = Broadcast(n, NONE)
               /\ Seniority_Logic' = Broadcast(n, "jobtitle column not found")
    /\ pc' = "seniority_match"
    /\ UNCHANGED io
    /\ UNCHANGED << pair, mcols, mrows, pcols, prows, out, Match, corrected_cells,
                    Seniority_Match, Domain_Match, Domain_Score, Domain_Method,
                    Domain_Connection_Status >>

\* the "seniority" block: the parsed tier against the picklist's seniority column
MatchSeniority ==
    /\ pc = "seniority_match"
    /\ LET n == Len(mrows)
           sen_set == {NormKey(FillStr(df_picklist_rows[i]["seniority"])) :
                          i \in 1..Len(df_picklist_rows)}
       IN IF "seniority" \in df_picklist_cols
          THEN Seniority_Match' =
                  [i \in 1..n |->
                      IF Parsed_Seniority[i] # NONE
                         /\ NormKey(Parsed_Seniority[i]) \in sen_set
                      THEN "Yes" ELSE "No"]
          ELSE Seniority_Match' = Broadcast(n, "Picklist Missing")
    /\ pc' = IF program = "app" THEN "domain" ELSE "to_excel"
    /\ UNCHANGED io
    /\ UNCHANGED << pair, mcols, mrows, pcols, prows, out, Match, corrected_cells,
                    Parsed_Seniority, Seniority_Logic,
                    Domain_Match, Domain_Score, Domain_Method,
                    Domain_Connection_Status >>

\* cols_lower = {c.lower(): c for c in df_master.columns}
cols_lower == [k \in {Lower(c) : c \in mcols} |-> CHOOSE c \in mcols : Lower(c) = k]

\* the first candidate that is a key of cols_lower names the column; NONE if none is
Detect(lowered, candidates) ==
    LET found == {i \in 1..Len(candidates) : candidates[i] \in DOMAIN lowered}
    IN IF found = {} THEN NONE
       ELSE lowered[candidates[CHOOSE i \in found : \A k \in found : i <= k]]

\* the domain / company block: score every row, or the sentinel columns
CheckDomains ==
    /\ pc = "domain"
    /\ LET n == Len(mrows)
           lowered == cols_lower
           company_col == Detect(lowered, company_candidates)
           domain_col == Detect(lowered, domain_candidates)
       IN IF company_col # NONE /\ domain_col # NONE
          THEN LET v == [i \in 1..n |->
                          score_domain_company(mrows[i][company_col],
                                               mrows[i][domain_col])]
               IN /\ Domain_Match' = [i \in 1..n |-> IF v[i].ok THEN "Yes" ELSE "No"]
                  /\ Domain_Score' = [i \in 1..n |-> v[i].score]
                  /\ Domain_Method' = [i \in 1..n |-> v[i].method]
                  /\ Domain_Connection_Status' = [i \in 1..n |-> v[i].status]
          ELSE /\ Domain_Match' = Broadcast(n, "Columns Missing")
               /\ Domain_Score' = Broadcast(n, NoScore)
               /\ Domain_Method' = Broadcast(n, "Columns Missing")
               /\ Domain_Connection_Status' =
                     Broadcast(n, "Columns Missing (companyname / website preferred)")
    /\ pc' = "save"
    /\ UNCHANGED io
    /\ UNCHANGED << pair, mcols, mrows, pcols, prows, out, Match, corrected_cells,
                    Parsed_Seniority, Seniority_Logic, Seniority_Match >>

Next == ReconcilePair \/ ParseSeniority \/ MatchSeniority \/ CheckDomains

\* the two files of a run, with nothing computed, written or returned yet
Loaded(input) ==
    /\ mcols = input.mcols
    /\ mrows = input.mrows
    /\ pcols = input.pcols
    /\ prows = input.prows
    /\ out = input.mrows
    /\ Match = [f \in MasterFields |-> <<>>]
    /\ corrected_cells = {}
    /\ pair = 1
    /\ Parsed_Seniority = <<>>
    /\ Seniority_Logic = <<>>
    /\ Seniority_Match = <<>>
    /\ Domain_Match = <<>>
    /\ Domain_Score = <<>>
    /\ Domain_Method = <<>>
    /\ Domain_Connection_Status = <<>>
    /\ out_file = "absent"
    /\ returned = NONE

\* the state of src/app.py once both files are read and df_out =
\* df_master.copy() is made
Start(input) ==
    /\ Loaded(input)
    /\ program = "app"
    /\ pc = "reconcile"

\* ------------------------------------------------------------ run_matching: the whole run

\* reading the two files and preparing df_picklist, df_out, corrected_cells
ReadInputs ==
    /\ pc = "read"
    /\ pc' = "reconcile"
    /\ UNCHANGED << pair, mcols, mrows, pcols, prows, out, Match, corrected_cells,
                    Parsed_Seniority, Seniority_Logic, Seniority_Match,
                    Domain_Match, Domain_Score, Domain_Method,
                    Domain_Connection_Status, io >>

\* src/app.py: the styled copy of the master workbook is built in memory and
\* written by the one wb.save(out_file); the path is returned
SaveWorkbook ==
    /\ pc = "save"
    /\ program = "app"
    /\ out_file' = "formatted"
    /\ returned' = "out_file"
    /\ pc' = "done"
    /\ UNCHANGED << pair, mcols, mrows, pcols, prows, out, Match, corrected_cells,
                    Parsed_Seniority, Seniority_Logic, Seniority_Match,
                    Domain_Match, Domain_Score, Domain_Method,
                    Domain_Connection_Status, program >>

\* the variant: df_out.to_excel(out_file) writes the output, unformatted
ToExcel ==
    /\ pc = "to_excel"
    /\ program = "main"
    /\ out_file' = "unformatted"
    /\ pc' = "format"
    /\ UNCHANGED << pair, mcols, mrows, pcols, prows, out, Match, corrected_cells,
                    Parsed_Seniority, Seniority_Logic, Seniority_Match,
                    Domain_Match, Domain_Score, Domain_Method,
                    Domain_Connection_Status, program, returned >>

\* the variant: the written file is loaded again, filled with colours and
\* saved over itself; the path is returned
FormatWorkbook ==
    /\ pc = "format"
    /\ program = "main"
    /\ out_file' = "formatted"
    /\ returned' = "out_file"
    /\ pc' = "done"
    /\ UNCHANGED << pair, mcols, mrows, pcols, prows, out, Match, corrected_cells,
                    Parsed_Seniority, Seniority_Logic, Seniority_Match,
                    Domain_Match, Domain_Score, Domain_Method,
                    Domain_Connection_Status, program >>

\* "except Exception as e": the step the run is at raises before it has any
\* effect; the message is returned and nothing is undone
Raise ==
    /\ pc \notin {"done", "error"}
    /\ returned' = "error"
    /\ pc' = "error"
    /\ UNCHANGED << pair, mcols, mrows, pcols, prows, out, Match, corrected_cells,
                    Parsed_Seniority, Seniority_Logic, Seniority_Match,
                    Domain_Match, Domain_Score, Domain_Method,
                    Domain_Connection_Status, program, out_file >>

\* a run of either program from its call to its return
NextRun ==
    \/ ReadInputs
    \/ Next
    \/ SaveWorkbook
    \/ ToExcel
    \/ FormatWorkbook
    \/ Raise

\* ------------------------------------------------------------ inputs

\* the most records of a master, and of a picklist, in the reconciliation runs
MaxRows == 2
MaxPick == 2

\* the most words of a job title in the seniority runs
MaxTitleWords == 2

\* the most words of a company name in the normalization runs
MaxNameWords == 2

\* the sequences of 1..n values of S
SeqsUpTo(S, n) == UNION {[1..k -> S] : k \in 1..n}

\* datasets over the columns cols whose records hold one cell in every column
Tables(cols, cells, n) ==
    {[i \in 1..Len(vs) |-> [c \in cols |-> vs[i]]] : vs \in SeqsUpTo(cells, n)}

RecMasterCells ==
    {NaN, NumCell("7"), StrCell("Uk"), StrCell("UK"), StrCell(" uk ")}

RecPickCells == {NaN, StrCell("UK"), StrCell("uk "), StrCell(" ")}

RecMasterCols == {MasterFields, {"c_industry", "lead_country"}}

RecPickCols == {MasterFields \cup {"seniority"}, {"lead_country", "c_state"}}

\* masters and picklists for the reconciliation pass
ReconcileInputs ==
    UNION {{[mcols |-> mc, mrows |-> mr, pcols |-> pcs, prows |-> pr] :
               mr \in Tables(mc, RecMasterCells, MaxRows),
               pr \in Tables(pcs, RecPickCells, MaxPick)} :
           mc \in RecMasterCols, pcs \in RecPickCols}

TitleWords ==
    {"Chief", "Vice", "President", "VP", "SVP", "Head", "Headmaster", "Director",
     "Manager", "Managers", "Senior", "Sr.", "Intern", "Engineer", "Sales"}

\* job titles: up to MaxTitleWords words, a blank cell text, an empty cell, a number
TitleCells ==
    {StrCell(Join(ws)) : ws \in SeqsUpTo(TitleWords, MaxTitleWords)}
    \cup {StrCell(" "), StrCell(" VP-Sales "), NaN, NumCell("7")}

SeniorityPicklist ==
    <<[seniority |-> StrCell("C Suite")], [seniority |-> StrCell("vp ")],
      [seniority |-> StrCell("Manager")]>>

\* masters with a job title column and one record
SeniorityInputs ==
    {[mcols |-> {"jobtitle"}, mrows |-> <<[c \in {"jobtitle"} |-> t]>>,
      pcols |-> {"seniority"}, prows |-> SeniorityPicklist] : t \in TitleCells}

CompanyCells ==
    {StrCell("Tesco PLC"), StrCell("International Business Machines"),
     StrCell("Acme Rockets"), StrCell("Web Data Works"), StrCell("Abc Bank Corp"),
     StrCell("abxdyfzhij"), StrCell("abcdeyghij"), StrCell("Ltd"), StrCell("& Co."),
     StrCell(" "), NaN, NumCell("0"), NumCell("7")}

DomainCells ==
    {StrCell("tesco.com"), StrCell("https://www.Tesco.com/stores"), StrCell("tesco"),
     StrCell("ibm.com"), StrCell("ibm"), StrCell("web"), StrCell("data"),
     StrCell("web.com"), StrCell("abcbank"), StrCell("nan.com"),
     StrCell("unrelatedbrand.net"), StrCell("abcdefghij"), StrCell("abcdexghij"),
     StrCell("acmerocket"), StrCell("..."), NaN, NumCell("0")}

ScoreCols ==
    {{"companyname", "website"}, {"Company", "domain"},
     {"companyname", "website", "domain"}, {"companyname", "jobtitle"}}

\* masters with one record holding a company and a domain
ScoreInputs ==
    {[mcols |-> mc,
      mrows |-> <<[c \in mc |->
                      IF Lower(c) \in {"companyname", "company"} THEN co
                      ELSE IF c = "website" \/ (c = "domain" /\ "website" \notin mc)
                           THEN d
                      ELSE NaN]>>,
      pcols |-> {}, prows |-> <<>>] :
        mc \in ScoreCols, co \in CompanyCells, d \in DomainCells}

\* words of company names: suffixes in several spellings, words that become a
\* suffix once their punctuation is gone, words that only look like one
NameWords ==
    {"Acme", "LTD", "L.t.d.", "Co.", "&", "S.r.l.", "Real-Estate", "real",
     "estate", "Tesco_1", "(Holdings)", "Sys", "tems", " ", "A.B", "web"}

\* company names: up to MaxNameWords words, an empty text, an empty cell, numbers
NameCells ==
    {StrCell(Join(ws)) : ws \in SeqsUpTo(NameWords, MaxNameWords)}
    \cup {StrCell(""), NaN, NumCell("7"), NumCell("7.5")}

\* masters with one record holding a company name and a domain
NormalizeInputs ==
    {[mcols |-> {"companyname", "website"},
      mrows |-> <<[companyname |-> co, website |-> StrCell("acme.com")]>>,
      pcols |-> {}, prows |-> <<>>] : co \in NameCells}

\* the masters of ScoreInputs for one company, for the runs from call to return
RunInputs ==
    {input \in ScoreInputs :
        \E c \in input.mcols : input.mrows[1][c] = StrCell("Tesco PLC")}

Init == \E input \in ReconcileInputs : Start(input)
InitSeniority == \E input \in SeniorityInputs : Start(input)
InitScore == \E input \in ScoreInputs : Start(input)
InitNormalize == \E input \in NormalizeInputs : Start(input)

Spec == Init /\ [][Next]_vars
SpecSeniority == InitSeniority /\ [][Next]_vars
SpecScore == InitScore /\ [][Next]_vars
SpecNormalize == InitNormalize /\ [][Next]_vars

\* either program, called on its two files
InitRun ==
    \E input \in RunInputs :
        /\ Loaded(input)
        /\ program \in Programs
        /\ pc = "read"

SpecRun == InitRun /\ [][NextRun]_vars

\* ------------------------------------------------------------ reconciliation claims

\* pair k of EXACT_PAIRS has been reconciled
PairDone(k) == pc # "reconcile" \/ pair > k

\* both columns of pair k exist
PairPresent(k) == EXACT_PAIRS[k][1] \in mcols /\ EXACT_PAIRS[k][2] \in pcols

\* the raw text of record i in master column f, a null read as ""
RawText(i, f) == FillStr(mrows[i][f])

\* the non-null values of picklist column f whose trimmed lower-cased form is
\* that of record i's value
Canonicals(i, f, g) ==
    {j \in 1..Len(prows) :
        /\ prows[j][g].kind # "nan"
        /\ NormKey(PyStr(prows[j][g])) = NormKey(RawText(i, f))}

\* C1: once a pair with both columns is reconciled, every record whose value
\* (null as ""), trimmed and lower-cased, equals the trimmed lower-cased form of
\* a non-null picklist value has the annotation Yes, holds the trimmed form of
\* the picklist value (the last one of that form), and its cell is in
\* corrected_cells exactly when that form differs from the raw text.
C1_HitCanonicalized ==
    \A k \in 1..Len(EXACT_PAIRS) :
        (PairDone(k) /\ PairPresent(k)) =>
            LET f == EXACT_PAIRS[k][1]
                g == EXACT_PAIRS[k][2]
            IN \A i \in 1..Len(mrows) :
                  LET hits == Canonicals(i, f, g)
                      last == CHOOSE j \in hits : \A h \in hits : h <= j
                      canon == Strip(PyStr(prows[last][g]))
                  IN hits # {} =>
                        /\ Match[f][i] = "Yes"
                        /\ out[i][f] = StrCell(canon)
                        /\ (<<f, ExcelRow(i)>> \in corrected_cells
                              <=> canon # RawText(i, f))

\* a master "Uk" met the picklist's "UK": value "UK", Yes, one correction,
\* next to a record that held "UK" already and is not in corrected_cells
C1_Witness ==
    /\ pc = "seniority"
    /\ Len(mrows) = 2
    /\ mrows[1]["lead_country"] = StrCell("Uk")
    /\ mrows[2]["lead_country"] = StrCell("UK")
    /\ out[1]["lead_country"] = StrCell("UK")
    /\ Match["lead_country"] = <<"Yes", "Yes">>
    /\ <<"lead_country", 2>> \in corrected_cells
    /\ <<"lead_country", 3>> \notin corrected_cells

\* C2: a pair with its master or its picklist column absent writes Column
\* Missing for every record, changes no value and no corrected cell, and the
\* run goes on to the next pair (or to the step after the last pair).
C2_ColumnMissing ==
    [][(pc = "reconcile" /\ ~PairPresent(pair)) =>
          /\ Match'[EXACT_PAIRS[pair][1]] = Broadcast(Len(mrows), "Column Missing")
          /\ out' = out
          /\ corrected_cells' = corrected_cells
          /\ \A f \in MasterFields \ {EXACT_PAIRS[pair][1]} : Match'[f] = Match[f]
          /\ IF pair < Len(EXACT_PAIRS)
             THEN pc' = "reconcile" /\ pair' = pair + 1
             ELSE pc' = "seniority"]_vars

\* the picklist has no c_industry: Column Missing for both records, their
\* c_industry as read, and the later pair lead_country reconciled all the same
C2_Witness ==
    /\ pc = "seniority"
    /\ "c_industry" \in mcols /\ "c_industry" \notin pcols
    /\ Len(mrows) = 2
    /\ Match["c_industry"] = <<"Column Missing", "Column Missing">>
    /\ \A i \in 1..2 : out[i]["c_industry"] = mrows[i]["c_industry"]
    /\ Match["lead_country"] = <<"Yes", "No">>

\* record i misses in pair k: no non-null picklist value has its form
Miss(k, i) == Canonicals(i, EXACT_PAIRS[k][1], EXACT_PAIRS[k][2]) = {}

\* C3 (as claimed): once a pair with both columns is reconciled, every record
\* that misses has the annotation No and the cell it had in the master, be it
\* a text, a number or an empty cell.
C3_MissUnchanged ==
    \A k \in 1..Len(EXACT_PAIRS) :
        (PairDone(k) /\ PairPresent(k)) =>
            \A i \in 1..Len(mrows) :
                Miss(k, i) =>
                    /\ Match[EXACT_PAIRS[k][1]][i] = "No"
                    /\ out[i][EXACT_PAIRS[k][1]] = mrows[i][EXACT_PAIRS[k][1]]

\* ------------------------------------------------------------ company / domain claims

\* the records score_domain_company has been applied to
Scored ==
    IF /\ pc = "save"
       /\ Detect(cols_lower, company_candidates) # NONE
       /\ Detect(cols_lower, domain_candidates) # NONE
    THEN 1..Len(mrows) ELSE {}

\* the two cells passed for record i, and the texts the stages work on
CompanyRaw(i) == mrows[i][Detect(cols_lower, company_candidates)]
DomainRaw(i) == mrows[i][Detect(cols_lower, domain_candidates)]
Comp(i) == _normalize_tokens(PyStr(CompanyRaw(i)))
Dom(i) == OnlyWord(Lower(PyStr(DomainRaw(i))))

\* the conditions of the stages, as the code tests them
GuardHolds(i) == ~Truthy(CompanyRaw(i)) \/ ~Truthy(DomainRaw(i))
EmptyHolds(i) == Comp(i) = "" \/ Dom(i) = ""
IsGeneric(label) == Len(label) < MIN_DOM_LEN \/ label \in STOPWORDS
ContainedIn(label, i) == Contains(Despace(Comp(i)), label)
AcronymHolds(i) ==
    /\ Len(_make_acronym(PyStr(CompanyRaw(i)))) >= MIN_ACRONYM_LEN
    /\ StartsWith(Dom(i), _make_acronym(PyStr(CompanyRaw(i))))

\* C4 (as claimed): for a company name and a domain given as a URL or a bare
\* domain with a top-level suffix, if the second-level label is a substring of
\* the despaced normalized company name and is neither generic nor too short,
\* the verdict is Likely Match, score 100, method "contains".
C4_LabelContainment ==
    \A i \in Scored :
        LET label == SecondLevelLabel(DomainRaw(i))
        IN (/\ IsStr(CompanyRaw(i)) /\ IsStr(DomainRaw(i))
            /\ label # NA /\ label # ""
            /\ ~IsGeneric(label)
            /\ ContainedIn(label, i)) =>
               /\ Domain_Connection_Status[i] = LIKELY
               /\ FracEq(Domain_Score[i], Frac(100, 1))
               /\ Domain_Method[i] = "contains"

\* the stage that decides record i: the first whose condition holds
Stage(i) ==
    IF GuardHolds(i) THEN "guard"
    ELSE IF EmptyHolds(i) THEN "empty"
    ELSE IF IsGeneric(Dom(i)) THEN "generic"
    ELSE IF ContainedIn(Dom(i), i) THEN "contains"
    ELSE IF AcronymHolds(i) THEN "acronym"
    ELSE "fuzzy"

\* C5: the verdict is that of the first stage, in the order input guard,
\* empty-after-normalization guard, generic guard, containment, acronym,
\* fuzzy, whose condition (as the code tests it) holds, whatever the later
\* stages would say: a generic domain text is "generic" even when the company
\* contains it, a contained one is "contains" with 100 even when the acronym
\* matches, an acronym match is "acronym" with 95.
C5_FirstStageWins ==
    \A i \in Scored :
        /\ Stage(i) \in {"guard", "empty"} => Domain_Method[i] = "none"
        /\ Stage(i) \notin {"guard", "empty"} => Domain_Method[i] = Stage(i)
        /\ Stage(i) = "generic" => Domain_Connection_Status[i] = UNSURE
        /\ Stage(i) = "contains" =>
              /\ Domain_Connection_Status[i] = LIKELY
              /\ FracEq(Domain_Score[i], Frac(100, 1))
        /\ Stage(i) = "acronym" =>
              /\ Domain_Connection_Status[i] = LIKELY
              /\ FracEq(Domain_Score[i], Frac(ACRONYM_SCORE, 1))

\* "Abc Bank Corp" with "abcbank": contained, and the acronym "abc" is a prefix
\* of the domain text too; the verdict is the containment one
C5_Witness ==
    /\ 1 \in Scored
    /\ CompanyRaw(1) = StrCell("Abc Bank Corp")
    /\ DomainRaw(1) = StrCell("abcbank")
    /\ ContainedIn(Dom(1), 1) /\ AcronymHolds(1)
    /\ Domain_Method[1] = "contains"
    /\ Domain_Score[1] = Frac(100, 1)

\* the cell is empty, an empty text or not a text
Missing(cell) == ~IsStr(cell) \/ cell.s = ""

\* the domain label of record i as the specification extracts it: the
\* second-level label of a dotted domain, else the whole text, stripped of
\* every character that is not a word character
Label(i) ==
    IF SecondLevelLabel(DomainRaw(i)) = NA THEN Dom(i)
    ELSE OnlyWord(SecondLevelLabel(DomainRaw(i)))

\* C6 (as claimed): for every company text (any non-empty string, be it made
\* only of legal suffixes or punctuation), a domain label shorter than 4 or
\* generic gives Unsure with method "generic".
C6_GenericAnyCompany ==
    \A i \in Scored :
        (/\ ~Missing(CompanyRaw(i)) /\ ~Missing(DomainRaw(i))
         /\ Label(i) # "" /\ IsGeneric(Label(i))) =>
            /\ Domain_Connection_Status[i] = UNSURE
            /\ Domain_Method[i] = "generic"

\* C7 (as claimed): when the company or the domain is missing, not a text, or
\* empty after normalization, the verdict is Unsure with score 0.
C7_MissingIsUnsure ==
    \A i \in Scored :
        (Missing(CompanyRaw(i)) \/ Missing(DomainRaw(i)) \/ EmptyHolds(i)) =>
            /\ Domain_Connection_Status[i] = UNSURE
            /\ FracEq(Domain_Score[i], Frac(0, 1))

\* the fused score of record i
Fused(i) == FracMax(partial_ratio(Dom(i), Comp(i)), token_set_ratio(Dom(i), Comp(i)))

\* C8: in the fuzzy stage the status is Likely Match exactly when fused >= 90,
\* Unsure exactly when 70 <= fused < 90, Likely Not Match exactly when
\* fused < 70, and the score is fused.
C8_FuzzyBands ==
    \A i \in Scored :
        Stage(i) = "fuzzy" =>
            /\ FracEq(Domain_Score[i], Fused(i))
            /\ Domain_Connection_Status[i] = LIKELY <=> AtLeast(Fused(i), 90)
            /\ Domain_Connection_Status[i] = UNSURE
                  <=> (AtLeast(Fused(i), 70) /\ Below(Fused(i), 90))
            /\ Domain_Connection_Status[i] = NOT_MATCH <=> Below(Fused(i), 70)

\* a fused score of exactly 70: Unsure
C8_Witness ==
    /\ 1 \in Scored
    /\ Stage(1) = "fuzzy"
    /\ FracEq(Fused(1), Frac(70, 1))
    /\ Domain_Connection_Status[1] = UNSURE
    /\ FracEq(Domain_Score[1], Frac(70, 1))

\* ------------------------------------------------------------ seniority claims

\* the records parse_seniority has been applied to
Parsed ==
    IF pc \in {"seniority_match", "domain", "save"} /\ "jobtitle" \in mcols
    THEN 1..Len(mrows) ELSE {}

Title(i) == mrows[i]["jobtitle"]

\* the tiers in the order the claim gives them
TierOrder == <<"C Suite", "VP", "Head", "Director", "Manager", "Senior", "Entry">>

\* the keywords of a tier
TierKeywords(tier) ==
    UNION {SENIORITY_RULES[r].kws :
              r \in {q \in 1..Len(SENIORITY_RULES) : SENIORITY_RULES[q].tier = tier}}

\* the places in TierOrder of the tiers one of whose keywords the lowered,
\* trimmed title holds as a whole word
TiersHeld(i) ==
    {k \in 1..Len(TierOrder) :
        \E kw \in TierKeywords(TierOrder[k]) :
            WordSearch(Strip(Lower(Title(i).s)), kw)}

\* C9: the result is the tier that comes earliest in the order C-Suite, VP,
\* Head, Director, Manager, Senior, entry markers among the tiers whose
\* keywords the title holds; a title with no keyword, an empty title and a
\* title that is not a string are Entry.
C9_EarliestTierWins ==
    \A i \in Parsed :
        IF ~IsStr(Title(i)) \/ TiersHeld(i) = {}
        THEN Parsed_Seniority[i] = "Entry"
        ELSE \E k \in TiersHeld(i) :
                /\ \A h \in TiersHeld(i) : k <= h
                /\ Parsed_Seniority[i] = TierOrder[k]

\* "Senior Manager" holds keywords of Manager and of Senior: it is Manager
C9_Witness ==
    /\ 1 \in Parsed
    /\ Title(1) = StrCell("Senior Manager")
    /\ TiersHeld(1) = {5, 6}
    /\ Parsed_Seniority[1] = "Manager"

\* the keyword sets the claim gives: those of the tiers, with svp in VP
ClaimedKeywords(tier) ==
    IF tier = "VP" THEN {"vice president", "vp", "svp"} ELSE TierKeywords(tier)

\* the lowered title contains, as a whole word, one of the claimed keywords of
\* the tier at place k
ContainsKeyword(i, k) ==
    \E kw \in ClaimedKeywords(TierOrder[k]) :
        WordSearch(Strip(Lower(Title(i).s)), kw)

\* C10 (as claimed): for every string title, a tier is assigned whenever the
\* lowered title contains one of its keywords (VP: vice president, vp, svp)
\* and no keyword of an earlier tier; so "SVP Sales" is VP and a title that
\* contains "head" and no C-Suite or VP keyword is Head.
C10_ContainsKeyword ==
    \A i \in Parsed :
        IsStr(Title(i)) =>
            \A k \in 1..Len(TierOrder) :
                (/\ ContainsKeyword(i, k)
                 /\ \A h \in 1..(k - 1) : ~ContainsKeyword(i, h)) =>
                    Parsed_Seniority[i] = TierOrder[k]

\* ------------------------------------------------------------ normalization claim

\* C11: normalization is idempotent: for every company cell x that has been
\* scored, normalizing the normalized text of x gives that text again; and the
\* normalized text is lower-case, without punctuation, without suffix tokens,
\* its tokens joined by single spaces.
C11_NormalizeIdempotent ==
    \A i \in Scored :
        /\ _normalize_tokens(Comp(i)) = Comp(i)
        /\ Lower(Comp(i)) = Comp(i)
        /\ StripPunct(Comp(i)) = Comp(i)
        /\ Join(Split(Comp(i))) = Comp(i)
        /\ \A k \in 1..Len(Split(Comp(i))) : Split(Comp(i))[k] \notin SUFFIXES

\* "Acme L.t.d.": the punctuation goes, the suffix it leaves is dropped, and
\* the result "acme" is its own normal form
C11_Witness ==
    /\ 1 \in Scored
    /\ CompanyRaw(1) = StrCell("Acme L.t.d.")
    /\ Comp(1) = "acme"
    /\ _normalize_tokens(Comp(1)) = "acme"

\* ------------------------------------------------------------ failure claim

\* C12 (as claimed): whenever run_matching has returned an error message, no
\* output file has been written; a file exists at the return only when the
\* path is returned.
C12_NoPartialOutput == returned = "error" => out_file = "absent"

\* ------------------------------------------------------------ consistency claim

\* C13: the components of every verdict agree: Likely Match goes with
\* Domain_Match = Yes and a score of at least 90, Likely Not Match with
\* Domain_Match = No and a score below 70, and the score is within 0..100.
C13_VerdictConsistent ==
    \A i \in Scored :
        /\ Domain_Connection_Status[i] \in {LIKELY, UNSURE, NOT_MATCH}
        /\ Domain_Match[i] \in {"Yes", "No"}
        /\ Domain_Connection_Status[i] = LIKELY =>
              Domain_Match[i] = "Yes" /\ AtLeast(Domain_Score[i], 90)
        /\ Domain_Connection_Status[i] = NOT_MATCH =>
              Domain_Match[i] = "No" /\ Below(Domain_Score[i], 70)
        /\ Domain_Score[i].d > 0
        /\ AtLeast(Domain_Score[i], 0)
        /\ FracLE(Domain_Score[i], Frac(100, 1))

\* a fuzzy verdict with a score strictly between 0 and 70: Likely Not Match, No
C13_Witness ==
    /\ 1 \in Scored
    /\ Domain_Method[1] = "fuzzy"
    /\ Domain_Connection_Status[1] = NOT_MATCH
    /\ Domain_Match[1] = "No"
    /\ ~FracLE(Domain_Score[1], Frac(0, 1))
    /\ Below(Domain_Score[1], 70)

====
